---- MODULE Spec2Model ----
(***************************************************************************)
(* Model of the backtest suite's strategy core:                            *)
(*   - lib/technical-analysis.ts : calculateRSI, calculateChaikinVolatility,*)
(*     calculatePercentageChange, generateTradingSignals                    *)
(*   - hooks/use-optimization.ts : randomParams, randomNeighbor,            *)
(*     runOneHillClimb, runHillClimbForFiveSeconds, resetParameters         *)
(*                                                                         *)
(* JavaScript numbers are modelled as exact rationals extended with        *)
(* +Infinity, -Infinity and NaN (floating-point rounding is abstracted).   *)
(* Thresholds are kept in tenths so that -19.9 is the integer -199.        *)
(***************************************************************************)
EXTENDS Integers, Sequences, FiniteSets, TLC

(***************************************************************************)
(* JavaScript number arithmetic                                            *)
(***************************************************************************)
\* a nullable reference: <<>> is null, <<v>> is a reference to v
NULL == <<>>
Ref(v) == <<v>>

Abs(x) == IF x < 0 THEN -x ELSE x

RECURSIVE GcdNat(_, _)
GcdNat(a, b) == IF b = 0 THEN a ELSE GcdNat(b, a % b)

GCD(a, b) == GcdNat(Abs(a), Abs(b))

\* a finite number n/d, normalised (d > 0, lowest terms)
Fin(n, d) ==
    LET g == GCD(n, d)
        s == IF d < 0 THEN -1 ELSE 1
    IN  [k |-> "fin", n |-> s * (n \div g), d |-> s * (d \div g)]

Num(x) == [k |-> "fin", n |-> x, d |-> 1]
PInf == [k |-> "pinf", n |-> 0, d |-> 1]
NInf == [k |-> "ninf", n |-> 0, d |-> 1]
NaN == [k |-> "nan", n |-> 0, d |-> 1]

\* sign of a number: -1, 0, 1 (NaN has none; callers test for NaN first)
Sgn(x) ==
    CASE x.k = "pinf" -> 1
      [] x.k = "ninf" -> -1
      [] x.k = "fin" -> (IF x.n > 0 THEN 1 ELSE IF x.n < 0 THEN -1 ELSE 0)
      [] OTHER -> 0

SignedInf(s) == IF s > 0 THEN PInf ELSE NInf

NNeg(x) ==
    CASE x.k = "fin" -> [x EXCEPT !.n = -x.n]
      [] x.k = "pinf" -> NInf
      [] x.k = "ninf" -> PInf
      [] OTHER -> NaN

NAdd(x, y) ==
    CASE x.k = "nan" \/ y.k = "nan" -> NaN
      [] x.k = "fin" /\ y.k = "fin" ->
            \* the sum over the least common denominator; a factor it shares
            \* with that denominator divides g
            LET g == GCD(x.d, y.d)
                t == x.n * (y.d \div g) + y.n * (x.d \div g)
                h == GCD(t, g)
            IN  [k |-> "fin", n |-> t \div h, d |-> (x.d \div g) * (y.d \div h)]
      [] x.k = "fin" -> y
      [] y.k = "fin" -> x
      [] x.k = y.k -> x
      [] OTHER -> NaN

NSub(x, y) == NAdd(x, NNeg(y))

NMul(x, y) ==
    CASE x.k = "nan" \/ y.k = "nan" -> NaN
      [] x.k = "fin" /\ y.k = "fin" ->
            \* cross-cancelled, so the product is in lowest terms
            IF x.n = 0 \/ y.n = 0 THEN Num(0)
            ELSE LET g1 == GCD(x.n, y.d)
                     g2 == GCD(y.n, x.d)
                 IN  [k |-> "fin", n |-> (x.n \div g1) * (y.n \div g2),
                      d |-> (x.d \div g2) * (y.d \div g1)]
      [] Sgn(x) = 0 \/ Sgn(y) = 0 -> NaN
      [] OTHER -> SignedInf(Sgn(x) * Sgn(y))

NDiv(x, y) ==
    CASE x.k = "nan" \/ y.k = "nan" -> NaN
      [] x.k = "fin" /\ y.k = "fin" ->
            IF y.n = 0
            THEN (IF x.n = 0 THEN NaN ELSE SignedInf(Sgn(x)))
            ELSE NMul(x, IF y.n < 0 THEN [k |-> "fin", n |-> -y.d, d |-> -y.n]
                                    ELSE [k |-> "fin", n |-> y.d, d |-> y.n])
      [] x.k = "fin" -> Num(0)
      [] y.k = "fin" -> SignedInf(Sgn(x) * (IF Sgn(y) < 0 THEN -1 ELSE 1))
      [] OTHER -> NaN

\* a/b < c/d for b, d > 0, by the continued-fraction expansion
\* (no product is formed, so nothing overflows)
RECURSIVE FracLess(_, _, _, _)
FracLess(a, b, c, d) ==
    LET qa == a \div b
        qc == c \div d
        ra == a % b
        rc == c % d
    IN  IF qa # qc THEN qa < qc
        ELSE IF rc = 0 THEN FALSE
        ELSE IF ra = 0 THEN TRUE
        ELSE FracLess(d, rc, b, ra)

\* the JavaScript operators <, >, >=, === on numbers
NLt(x, y) ==
    CASE x.k = "nan" \/ y.k = "nan" -> FALSE
      [] x.k = "fin" /\ y.k = "fin" -> FracLess(x.n, x.d, y.n, y.d)
      [] x.k = "ninf" -> y.k # "ninf"
      [] y.k = "pinf" -> x.k # "pinf"
      [] OTHER -> FALSE

NGt(x, y) == NLt(y, x)

NEq(x, y) == x.k # "nan" /\ y.k # "nan" /\ x = y

NGe(x, y) == NGt(x, y) \/ NEq(x, y)

NAbsJs(x) == IF x.k = "nan" THEN NaN ELSE IF Sgn(x) < 0 THEN NNeg(x) ELSE x

\* a threshold given in tenths, as a number
Tenths(t) == Fin(t, 10)

(***************************************************************************)
(* lib/technical-analysis.ts                                               *)
(***************************************************************************)
RSI_PERIOD == 14
CV_LENGTH == 10
INITIAL_INVESTMENT == 1000

\* arr[i] of a JavaScript number array used in arithmetic: an index past
\* the end reads undefined, which arithmetic turns into NaN
JsAt(arr, ix) == IF ix >= 0 /\ ix < Len(arr) THEN arr[ix + 1] ELSE NaN

\* first loop of calculateRSI: sums of gains and losses over i = 1..period
RECURSIVE RsiSeed(_, _, _, _, _)
RsiSeed(closes, period, ix, avgGain, avgLoss) ==
    IF ix > period THEN <<avgGain, avgLoss>>
    ELSE LET diff == NSub(JsAt(closes, ix), JsAt(closes, ix - 1))
         IN  IF NGt(diff, Num(0))
             THEN RsiSeed(closes, period, ix + 1, NAdd(avgGain, diff), avgLoss)
             ELSE RsiSeed(closes, period, ix + 1, avgGain, NAdd(avgLoss, NAbsJs(diff)))

\* second loop of calculateRSI: Wilder smoothing, one RSI value per i
RECURSIVE RsiLoop(_, _, _, _, _, _)
RsiLoop(closes, period, ix, avgGain, avgLoss, rsi) ==
    IF ix >= Len(closes) THEN rsi
    ELSE LET diff == NSub(JsAt(closes, ix), JsAt(closes, ix - 1))
             gain == IF NGt(diff, Num(0)) THEN diff ELSE Num(0)
             loss == IF NLt(diff, Num(0)) THEN NAbsJs(diff) ELSE Num(0)
             g == NDiv(NAdd(NMul(avgGain, Num(period - 1)), gain), Num(period))
             l == NDiv(NAdd(NMul(avgLoss, Num(period - 1)), loss), Num(period))
             rs == IF NEq(l, Num(0)) THEN PInf ELSE NDiv(g, l)
             v == NSub(Num(100), NDiv(Num(100), NAdd(Num(1), rs)))
         IN  RsiLoop(closes, period, ix + 1, g, l, Append(rsi, v))

calculateRSI(closes, period) ==
    LET seed == RsiSeed(closes, period, 1, Num(0), Num(0))
        avgGain == NDiv(seed[1], Num(period))
        avgLoss == NDiv(seed[2], Num(period))
    IN  RsiLoop(closes, period, period + 1, avgGain, avgLoss, <<>>)

\* hlDiff.slice(0, length).reduce((a, b) => a + b)
RECURSIVE SumFirst(_, _)
SumFirst(hlDiff, m) ==
    IF m = 1 THEN hlDiff[1] ELSE NAdd(SumFirst(hlDiff, m - 1), hlDiff[m])

\* the loop that extends emaHL, i = length .. hlDiff.length - 1
RECURSIVE EmaLoop(_, _, _, _)
EmaLoop(hlDiff, multiplier, ix, emaHL) ==
    IF ix >= Len(hlDiff) THEN emaHL
    ELSE LET prev == emaHL[Len(emaHL)]
             e == NAdd(NMul(NSub(JsAt(hlDiff, ix), prev), multiplier), prev)
         IN  EmaLoop(hlDiff, multiplier, ix + 1, Append(emaHL, e))

\* the loop that fills cv, i = length .. emaHL.length - 1
RECURSIVE CvLoop(_, _, _, _)
CvLoop(emaHL, length, ix, cv) ==
    IF ix >= Len(emaHL) THEN cv
    ELSE LET old == emaHL[ix - length + 1]
             cvValue == NMul(NDiv(NSub(emaHL[ix + 1], old), old), Num(100))
         IN  CvLoop(emaHL, length, ix + 1, Append(cv, cvValue))

\* highs.map((h, i) => h - lows[i]), for the first j entries
RECURSIVE HlDiff(_, _, _)
HlDiff(highs, lows, j) ==
    IF j = 0 THEN <<>>
    ELSE Append(HlDiff(highs, lows, j - 1), NSub(highs[j], JsAt(lows, j - 1)))

\* [threw |-> TRUE] stands for the TypeError that reduce() raises on an
\* empty array when it is given no initial value
calculateChaikinVolatility(highs, lows, length) ==
    LET hlDiff == HlDiff(highs, lows, Len(highs))
        m == IF Len(hlDiff) < length THEN Len(hlDiff) ELSE length
    IN  IF m = 0 THEN [threw |-> TRUE, cv |-> <<>>]
        ELSE LET multiplier == Fin(2, length + 1)
                 initialEMA == NDiv(SumFirst(hlDiff, m), Num(length))
                 emaHL == EmaLoop(hlDiff, multiplier, length, <<initialEMA>>)
             IN  [threw |-> FALSE, cv |-> CvLoop(emaHL, length, length, <<>>)]

calculatePercentageChange(buyPrice, sellPrice) ==
    NMul(NDiv(NSub(sellPrice, buyPrice), buyPrice), Num(100))

\* percentChange.toFixed(2): <<"fin", hundredths>> (ties go to the larger
\* value); a non-finite number prints as its name
ToFixed2(x) == IF x.k = "fin" THEN <<"fin", (200 * x.n + x.d) \div (2 * x.d)>> ELSE <<x.k, 0>>

\* the text of a marker: a label, or the signed percentage of a trade
Label(l) == <<l, "", <<"none", 0>>>>

OFFSET == 14

\* a price field of a candle as a number. A candle keeps its prices as
\* integers and, in nan, the names of the price fields whose value is NaN
Price(candle, field) == IF field \in candle.nan THEN NaN ELSE Num(candle[field])

\* state of the scan before its first iteration (lines 141-144)
ScanInit ==
    [activeBuySignal |-> NULL, signals |-> <<>>, allSignals |-> <<>>,
     completedTrades |-> <<>>]

\* mutant of BuyCondition: an indicator equal to its threshold triggers
BuyCondition_NonStrict(rsi, cv, params) ==
    /\ NLt(cv, Tenths(params.buyCvThreshold)) \/ NEq(cv, Tenths(params.buyCvThreshold))
    /\ NLt(rsi, Tenths(params.buyRsiThreshold)) \/ NEq(rsi, Tenths(params.buyRsiThreshold))

BuyCondition(rsi, cv, params) ==
    NLt(cv, Tenths(params.buyCvThreshold)) /\ NLt(rsi, Tenths(params.buyRsiThreshold))

SellCondition(rsi, cv, params) ==
    NGt(cv, Tenths(params.sellCvThreshold)) /\ NGt(rsi, Tenths(params.sellRsiThreshold))

\* the BUY branch (lines 152-164)
ScanBuy(st, candle) ==
    [st EXCEPT !.activeBuySignal = Ref([time |-> candle.time, price |-> Price(candle, "close")]),
               !.signals = Append(@, [time |-> candle.time, position |-> "belowBar",
                                      color |-> "buySignal", shape |-> "arrowUp",
                                      text |-> Label("BUY")])]

\* mutant of ScanSell: the position is not cleared after the sale
ScanSell_KeepOpen(st, candle) ==
    LET sellPrice == Price(candle, "close")
        percentChange == calculatePercentageChange(st.activeBuySignal[1].price, sellPrice)
    IN  [st EXCEPT !.completedTrades =
                       Append(@, [buyTime |-> st.activeBuySignal[1].time,
                                  sellTime |-> candle.time,
                                  buyPrice |-> st.activeBuySignal[1].price,
                                  sellPrice |-> sellPrice,
                                  percentageChange |-> percentChange]),
                   !.signals =
                       @ \o <<[time |-> candle.time, position |-> "aboveBar",
                               color |-> "sellSignal", shape |-> "arrowDown",
                               text |-> Label("SELL")]>>]

\* the SELL branch (lines 166-195)
ScanSell(st, candle) ==
    LET sellPrice == Price(candle, "close")
        percentChange == calculatePercentageChange(st.activeBuySignal[1].price, sellPrice)
        sign == IF NGe(percentChange, Num(0)) THEN "+" ELSE ""
        percentColor == IF NGe(percentChange, Num(0)) THEN "profit" ELSE "loss"
    IN  [st EXCEPT !.completedTrades =
                       Append(@, [buyTime |-> st.activeBuySignal[1].time,
                                  sellTime |-> candle.time,
                                  buyPrice |-> st.activeBuySignal[1].price,
                                  sellPrice |-> sellPrice,
                                  percentageChange |-> percentChange]),
                   !.signals =
                       @ \o <<[time |-> candle.time, position |-> "aboveBar",
                               color |-> "sellSignal", shape |-> "arrowDown",
                               text |-> Label("SELL")],
                              [time |-> candle.time, position |-> "aboveBar",
                               color |-> percentColor, shape |-> "square",
                               text |-> <<"PCT", sign, ToFixed2(percentChange)>>]>>,
                   !.activeBuySignal = NULL]

\* mutant of ScanTrade: a Buy is taken although a position is open
ScanTrade_Pyramiding(st, candle, rsi, cv, params) ==
    IF BuyCondition(rsi, cv, params)
    THEN ScanBuy(st, candle)
    ELSE IF st.activeBuySignal # NULL /\ SellCondition(rsi, cv, params)
    THEN ScanSell(st, candle)
    ELSE st

\* the transition part of one iteration (lines 151-195)
ScanTrade(st, candle, rsi, cv, params) ==
    IF st.activeBuySignal = NULL /\ BuyCondition(rsi, cv, params)
    THEN ScanBuy(st, candle)
    ELSE IF st.activeBuySignal # NULL /\ SellCondition(rsi, cv, params)
    THEN ScanSell(st, candle)
    ELSE st

\* mutant of ScanAll: a buy trigger met while a position is open moves the
\* position's entry to the trigger's candle
ScanAll_Reenters(st, candle, rsi, cv, params) ==
    LET b == IF BuyCondition(rsi, cv, params)
             THEN <<[time |-> candle.time, position |-> "belowBar",
                     color |-> "allSignalsBuy", shape |-> "arrowUp", text |-> Label("")]>>
             ELSE <<>>
        s == IF SellCondition(rsi, cv, params)
             THEN <<[time |-> candle.time, position |-> "aboveBar",
                     color |-> "allSignalsSell", shape |-> "arrowDown", text |-> Label("")]>>
             ELSE <<>>
    IN  [st EXCEPT !.allSignals = @ \o b \o s,
                   !.activeBuySignal =
                       IF @ # NULL /\ BuyCondition(rsi, cv, params)
                       THEN Ref([time |-> candle.time, price |-> Price(candle, "close")])
                       ELSE @]

\* the showAllSignals part of one iteration (lines 197-215)
ScanAll(st, candle, rsi, cv, params) ==
    LET b == IF BuyCondition(rsi, cv, params)
             THEN <<[time |-> candle.time, position |-> "belowBar",
                     color |-> "allSignalsBuy", shape |-> "arrowUp", text |-> Label("")]>>
             ELSE <<>>
        s == IF SellCondition(rsi, cv, params)
             THEN <<[time |-> candle.time, position |-> "aboveBar",
                     color |-> "allSignalsSell", shape |-> "arrowDown", text |-> Label("")]>>
             ELSE <<>>
    IN  [st EXCEPT !.allSignals = @ \o b \o s]

\* mutant of ScanBody: the marker is stamped one candle later
ScanBody_NextCandle(st, ix, candles, rsiVals, cvVals, params, showAll) ==
    LET cvIndex == Len(cvVals) - Len(rsiVals) + ix
    IN  IF cvIndex >= 0 /\ (ix + OFFSET + 1) < Len(candles)
        THEN LET candle == candles[ix + OFFSET + 2]
                 rsi == rsiVals[ix + 1]
                 cv == cvVals[cvIndex + 1]
                 t == ScanTrade(st, candle, rsi, cv, params)
             IN  IF showAll THEN ScanAll(t, candle, rsi, cv, params) ELSE t
        ELSE st

\* mutant of ScanBody: the CV value paired with RSI[i] is one place earlier
ScanBody_CvShift(st, ix, candles, rsiVals, cvVals, params, showAll) ==
    LET cvIndex == Len(cvVals) - Len(rsiVals) + ix - 1
    IN  IF cvIndex >= 0 /\ (ix + OFFSET) < Len(candles)
        THEN LET candle == candles[ix + OFFSET + 1]
                 rsi == rsiVals[ix + 1]
                 cv == cvVals[cvIndex + 1]
                 t == ScanTrade(st, candle, rsi, cv, params)
             IN  IF showAll THEN ScanAll(t, candle, rsi, cv, params) ELSE t
        ELSE st

\* one iteration of the for loop at index i (lines 148-217)
ScanBody(st, ix, candles, rsiVals, cvVals, params, showAll) ==
    LET cvIndex == Len(cvVals) - Len(rsiVals) + ix
    IN  IF cvIndex >= 0 /\ (ix + OFFSET) < Len(candles)
        THEN LET candle == candles[ix + OFFSET + 1]
                 rsi == rsiVals[ix + 1]
                 cv == cvVals[cvIndex + 1]
                 t == ScanTrade(st, candle, rsi, cv, params)
             IN  IF showAll THEN ScanAll(t, candle, rsi, cv, params) ELSE t
        ELSE st

RECURSIVE ScanLoop(_, _, _, _, _, _, _)
ScanLoop(st, ix, candles, rsiVals, cvVals, params, showAll) ==
    IF ix >= Len(rsiVals) THEN st
    ELSE ScanLoop(ScanBody(st, ix, candles, rsiVals, cvVals, params, showAll),
                  ix + 1, candles, rsiVals, cvVals, params, showAll)

\* mutant of Compound: the percentages are added instead of compounded
RECURSIVE Compound_Additive(_, _, _)
Compound_Additive(trades, j, value) ==
    IF j > Len(trades) THEN value
    ELSE Compound_Additive(trades, j + 1,
             NAdd(value, NMul(Num(INITIAL_INVESTMENT), NDiv(trades[j].percentageChange, Num(100)))))

\* completedTrades.forEach(trade => currentPortfolioValue *= 1 + pct / 100)
RECURSIVE Compound(_, _, _)
Compound(trades, j, value) ==
    IF j > Len(trades) THEN value
    ELSE Compound(trades, j + 1,
                  NMul(value, NAdd(Num(1), NDiv(trades[j].percentageChange, Num(100)))))

\* Array.prototype.sort((a, b) => a.time - b.time): stable, by time
RECURSIVE InsertByTime(_, _)
InsertByTime(sorted, x) ==
    IF sorted = <<>> \/ sorted[Len(sorted)].time <= x.time
    THEN Append(sorted, x)
    ELSE Append(InsertByTime(SubSeq(sorted, 1, Len(sorted) - 1), x), sorted[Len(sorted)])

RECURSIVE SortByTime(_, _, _)
SortByTime(arr, j, sorted) ==
    IF j > Len(arr) THEN sorted ELSE SortByTime(arr, j + 1, InsertByTime(sorted, arr[j]))

IsBuy(s) == s.text = Label("BUY")
IsSell(s) == s.text = Label("SELL")
IsBuyOrSell(s) == IsBuy(s) \/ IsSell(s)

\* mutant of Finish: every Buy marker counts as a trade, closed or not
Finish_CountsBuys(st, showAll) ==
    LET currentPortfolioValue == Compound(st.completedTrades, 1, Num(INITIAL_INVESTMENT))
        totalPercentageChange ==
            NMul(NDiv(NSub(currentPortfolioValue, Num(INITIAL_INVESTMENT)),
                      Num(INITIAL_INVESTMENT)), Num(100))
    IN  [threw |-> FALSE,
         signals |-> IF showAll
                     THEN SortByTime(st.signals \o st.allSignals, 1, <<>>)
                     ELSE st.signals,
         tradeAnalytics |-> [initialInvestment |-> INITIAL_INVESTMENT,
                             currentPortfolioValue |-> currentPortfolioValue,
                             totalPercentageChange |-> totalPercentageChange,
                             trades |-> st.completedTrades],
         profit |-> totalPercentageChange,
         numTrades |-> Len(SelectSeq(st.signals, IsBuy))]

\* lines 219-245: portfolio performance and the returned object
Finish(st, showAll) ==
    LET currentPortfolioValue == Compound(st.completedTrades, 1, Num(INITIAL_INVESTMENT))
        totalPercentageChange ==
            NMul(NDiv(NSub(currentPortfolioValue, Num(INITIAL_INVESTMENT)),
                      Num(INITIAL_INVESTMENT)), Num(100))
    IN  [threw |-> FALSE,
         signals |-> IF showAll
                     THEN SortByTime(st.signals \o st.allSignals, 1, <<>>)
                     ELSE st.signals,
         tradeAnalytics |-> [initialInvestment |-> INITIAL_INVESTMENT,
                             currentPortfolioValue |-> currentPortfolioValue,
                             totalPercentageChange |-> totalPercentageChange,
                             trades |-> st.completedTrades],
         profit |-> totalPercentageChange,
         numTrades |-> Len(st.completedTrades)]

\* what a caller observes when the call raises
Threw ==
    [threw |-> TRUE, signals |-> <<>>,
     tradeAnalytics |-> [initialInvestment |-> INITIAL_INVESTMENT,
                         currentPortfolioValue |-> NaN,
                         totalPercentageChange |-> NaN, trades |-> <<>>],
     profit |-> NaN, numTrades |-> 0]

\* ohlcvData.map(d => d[field]), for the first j candles
RECURSIVE PriceColumn(_, _, _)
PriceColumn(candles, field, j) ==
    IF j = 0 THEN <<>>
    ELSE Append(PriceColumn(candles, field, j - 1), Price(candles[j], field))

Closes(candles) == PriceColumn(candles, "close", Len(candles))
Highs(candles) == PriceColumn(candles, "high", Len(candles))
Lows(candles) == PriceColumn(candles, "low", Len(candles))

\* lines 134-139: the two indicator arrays of a series
ComputeIndicators(candles) ==
    [rsi |-> calculateRSI(Closes(candles), RSI_PERIOD),
     cvr |-> calculateChaikinVolatility(Highs(candles), Lows(candles), CV_LENGTH)]

\* the series the optimizer runs on: close and high - low of each bar
\* (18 flat bars, then alternating quiet and volatile bars)
HookBars ==
    [j \in 1..18 |-> [close |-> 100, range |-> 22]] \o
    <<[close |-> 100, range |-> 22], [close |-> 99, range |-> 0],
      [close |-> 100, range |-> 51], [close |-> 110, range |-> 2],
      [close |-> 100, range |-> 42], [close |-> 110, range |-> 2],
      [close |-> 100, range |-> 42]>>

HookSeries ==
    [j \in 1..Len(HookBars) |->
        [time |-> (j - 1) * 60, open |-> HookBars[j].close,
         high |-> HookBars[j].close + HookBars[j].range,
         low |-> HookBars[j].close, close |-> HookBars[j].close, nan |-> {}]]

\* lines 141-245 for given indicator arrays
Evaluate(ind, candles, params, showAll) ==
    IF ind.cvr.threw THEN Threw
    ELSE Finish(ScanLoop(ScanInit, 1, candles, ind.rsi, ind.cvr.cv, params,
                         showAll),
                showAll)

\* generateTradingSignals as a function of its arguments
generateTradingSignals(candles, params, showAll) ==
    Evaluate(ComputeIndicators(candles), candles, params, showAll)

(***************************************************************************)
(* Inputs of the evaluator                                                 *)
(***************************************************************************)
MaxTail == 5
PrefixLens == {0, 10, 15, 18}
TimeSteps == {60, 900}

\* the bars of a series: the flat bar of the prefix, and the bars that may
\* follow it (Q quiet, D dip, R rise): change of the close, high - low
FlatBar == [close |-> 10, range |-> 1]
BarKinds == {"Q", "D", "R"}
BarMove(kind) == CASE kind = "D" -> -1 [] kind = "R" -> 3 [] OTHER -> 0
BarRange(kind) == CASE kind = "R" -> 7 [] OTHER -> 0

RECURSIVE TailClose(_, _)
TailClose(tail, j) == IF j = 0 THEN FlatBar.close ELSE TailClose(tail, j - 1) + BarMove(tail[j])

\* a candle series: prefixLen flat bars, then the bars of tail; timestamps
\* strictly ascending, step seconds apart; prices positive, high >= low
Series(prefixLen, tail, step) ==
    [j \in 1..(prefixLen + Len(tail)) |->
        LET close == IF j <= prefixLen THEN FlatBar.close ELSE TailClose(tail, j - prefixLen)
            range == IF j <= prefixLen THEN FlatBar.range ELSE BarRange(tail[j - prefixLen])
        IN  [time |-> (j - 1) * step, open |-> close, high |-> close + range,
             low |-> close, close |-> close, nan |-> {}]]

Tails == UNION {[1..t -> BarKinds] : t \in 0..MaxTail}

CandleInputs == {Series(p, tail, step) : p \in PrefixLens, tail \in Tails, step \in TimeSteps}

\* malformed series: a series of 18 flat bars and three more, with one price
\* field of one candle (the first, the 16th, or the candle a signal of the
\* scan is stamped on) being NaN
NanFields == {"close", "high", "low"}
NanPositions == {1, 16, 19, 20}
NanBases == {Series(18, tail, 60) : tail \in [1..3 -> BarKinds]}
WithNaN(series, j, field) == [series EXCEPT ![j].nan = {field}]
NanInputs == {WithNaN(b, j, f) : b \in NanBases, j \in NanPositions, f \in NanFields}
HasNaN(series) == \E j \in 1..Len(series) : series[j].nan # {}

\* memo of the pure function ComputeIndicators over the inputs
IndicatorMemo == [series \in CandleInputs \cup NanInputs |-> ComputeIndicators(series)]

\* thresholds in tenths
DefaultParams ==
    [buyRsiThreshold |-> 400, buyCvThreshold |-> -199,
     sellRsiThreshold |-> 720, sellCvThreshold |-> 650]

\* evaluate() validates no bounds: the second set lies outside the optimizer's
ParamInputs ==
    {DefaultParams,
     [buyRsiThreshold |-> 1000, buyCvThreshold |-> 600, sellRsiThreshold |-> 0, sellCvThreshold |-> 650],
     [buyRsiThreshold |-> 1000, buyCvThreshold |-> 0, sellRsiThreshold |-> 1000, sellCvThreshold |-> 0]}

(***************************************************************************)
(* State                                                                   *)
(***************************************************************************)
VARIABLES
    ohlcvData,        \* the candle series (argument of generateTradingSignals)
    parameters,       \* argument: the four thresholds
    showAllSignals,   \* argument
    evalPc,           \* position inside generateTradingSignals
    rsiValues, cvValues,
    i,                \* loop index of the scan
    activeBuySignal, signals, allSignals, completedTrades,
    result,           \* the returned object, or Threw
    earlier           \* the calls that returned before this one, on the same
                      \* candle array: their arguments and what they returned

evalVars == <<ohlcvData, parameters, showAllSignals, evalPc, rsiValues, cvValues, i,
              activeBuySignal, signals, allSignals, completedTrades, result, earlier>>

VARIABLES
    ohlcvDataProp,    \* useOptimization's ohlcvData prop: NULL or Ref(name), the
                      \* reference to the candle array CandleStore[name]
    isOptimizing, testParams, bestParams, highestProfit,   \* the hook's React state
    pc,               \* position inside runHillClimbForFiveSeconds
    now,              \* Date.now()
    startTime, localBest, lastUpdateTime,   \* locals of runHillClimbForFiveSeconds
    runTestParams, runHighestProfit,        \* state captured by the run's closures
    current, iter,    \* locals of runOneHillClimb
    emitted,          \* onParametersUpdate calls of the current run
    runs, climbs,     \* runs started; climbs started in the current run
    evals,            \* generateTradingSignals calls made by the latest climb
    validSeen,        \* some evaluation of the current run had numTrades >= 3
    startBest,        \* localBest as the current run began
    runThrew,         \* the current run ended by an exception
    runsAtFetch,      \* value of runs when fetchData last replaced the data
    cancelRequested   \* the user has asked to stop the run in progress

hookVars == <<ohlcvDataProp, isOptimizing, testParams, bestParams,
              highestProfit, pc, now, startTime, localBest, lastUpdateTime, runTestParams,
              runHighestProfit, current, iter, emitted, runs, climbs, evals,
              validSeen, startBest, runThrew, runsAtFetch, cancelRequested>>

VARIABLES
    tokenAddress, interval,   \* the component's state: the pool and candle width shown
    cacheStore,       \* the cache keys that localStorage holds an entry for
    fetchPc,          \* position inside the component's fetchData
    dataLoadSource,   \* the component's state of that name
    apiCalls,         \* number of recordApiCall calls
    chartRequests,    \* number of chart-data requests sent to the network
    fetches, misses   \* fetchData calls begun; those whose cache lookup missed

fetchVars == <<tokenAddress, interval, cacheStore, fetchPc, dataLoadSource, apiCalls,
               chartRequests, fetches, misses>>

vars == <<evalVars, hookVars, fetchVars>>

\* the pools and intervals the user may select
PoolAddresses == {"poolA", "poolB"}
Intervals == {"15m", "1h"}

\* the component before its first fetchData, with whatever entries an
\* earlier session left in localStorage
FetchIdle(stored) ==
    /\ tokenAddress = "poolA"
    /\ interval = "15m"
    /\ cacheStore = stored
    /\ fetchPc = "idle"
    /\ dataLoadSource = NULL
    /\ apiCalls = 0
    /\ chartRequests = 0
    /\ fetches = 0
    /\ misses = 0

ScanState ==
    [activeBuySignal |-> activeBuySignal, signals |-> signals,
     allSignals |-> allSignals, completedTrades |-> completedTrades]

(***************************************************************************)
(* hooks/use-optimization.ts                                               *)
(***************************************************************************)
MaxRuns == 2
MaxClimbs == 2
MAX_ITERATIONS == 300
STEP_SIZE == 5
MIN_TRADES == 3
UPDATE_THROTTLE == 200
RUN_MILLIS == 5000
DELAY_MILLIS == 50

\* wall-clock time a climb may take, and the setTimeout(50) may take (a
\* timer fires at its delay or later)
ClimbDurations == {100, RUN_MILLIS + 1000}
SleepDurations == {DELAY_MILLIS, 3 * DELAY_MILLIS, RUN_MILLIS}

bounds ==
    [buyRsi |-> [min |-> 0, max |-> 100], buyCv |-> [min |-> -50, max |-> 0],
     sellRsi |-> [min |-> 0, max |-> 100], sellCv |-> [min |-> 0, max |-> 400]]

clamp(val, min, max) ==
    LET m == IF val < max THEN val ELSE max
    IN  IF min > m THEN min ELSE m

paramKeys == {"buyRsiThreshold", "buyCvThreshold", "sellRsiThreshold", "sellCvThreshold"}

BoundKey(chosenKey) ==
    CASE chosenKey = "buyRsiThreshold" -> "buyRsi"
      [] chosenKey = "sellRsiThreshold" -> "sellRsi"
      [] chosenKey = "buyCvThreshold" -> "buyCv"
      [] OTHER -> "sellCv"

\* mutant of randomNeighbor: the step is not clamped
randomNeighbor_Unclamped(params, chosenKey, delta) ==
    [params EXCEPT ![chosenKey] = @ + 10 * delta]

\* mutant of randomNeighbor: the step is applied to sellCvThreshold as well
randomNeighbor_TwoDims(params, chosenKey, delta) ==
    [params EXCEPT ![chosenKey] =
                       clamp(@ + 10 * delta, 10 * bounds[BoundKey(chosenKey)].min,
                             10 * bounds[BoundKey(chosenKey)].max),
                   !["sellCvThreshold"] =
                       clamp(@ + 10 * delta, 10 * bounds.sellCv.min, 10 * bounds.sellCv.max)]

\* randomNeighbor for the random choices chosenKey and delta (thresholds in tenths)
randomNeighbor(params, chosenKey, delta) ==
    [params EXCEPT ![chosenKey] =
        clamp(@ + 10 * delta, 10 * bounds[BoundKey(chosenKey)].min,
              10 * bounds[BoundKey(chosenKey)].max)]

\* values of Math.random(), a number in [0, 1): <<numerator, denominator>>
UnitDraws == {<<0, 1>>, <<1, 80>>, <<4, 5>>, <<999, 1000>>}

\* randInt for the random value u: Math.floor(u * (max - min + 1)) + min
randInt(min, max, u) == ((u[1] * (max - min + 1)) \div u[2]) + min

\* the four values of Math.random() that one call of randomParams consumes;
\* two of the possible draws are kept
RandomDraws ==
    {<<<<999, 1000>>, <<4, 5>>, <<0, 1>>, <<1, 80>>>>,
     <<<<0, 1>>, <<0, 1>>, <<999, 1000>>, <<999, 1000>>>>}

\* randomParams for the draws u (thresholds in tenths)
randomParamsOf(u) ==
    [buyRsiThreshold |-> 10 * randInt(bounds.buyRsi.min, bounds.buyRsi.max, u[1]),
     buyCvThreshold |-> 10 * randInt(bounds.buyCv.min, bounds.buyCv.max, u[2]),
     sellRsiThreshold |-> 10 * randInt(bounds.sellRsi.min, bounds.sellRsi.max, u[3]),
     sellCvThreshold |-> 10 * randInt(bounds.sellCv.min, bounds.sellCv.max, u[4])]

\* the results randomParams may give
randomParams == {randomParamsOf(u) : u \in RandomDraws}

Params4(r) ==
    [buyRsiThreshold |-> r.buyRsiThreshold, buyCvThreshold |-> r.buyCvThreshold,
     sellRsiThreshold |-> r.sellRsiThreshold, sellCvThreshold |-> r.sellCvThreshold]

\* { ...params, maxProfit, numTrades }
WithResult(params, maxProfit, numTrades) ==
    [buyRsiThreshold |-> params.buyRsiThreshold, buyCvThreshold |-> params.buyCvThreshold,
     sellRsiThreshold |-> params.sellRsiThreshold, sellCvThreshold |-> params.sellCvThreshold,
     maxProfit |-> maxProfit, numTrades |-> numTrades]

\* the initial value of bestParams (lines 29-36)
Sentinel == WithResult(DefaultParams, NInf, 0)
\* the initial value of highestProfit (lines 37-45)
NoHighest == [profit |-> NInf, params |-> DefaultParams]

\* the hook right after construction, for a given ohlcvData prop
HookInit(prop) ==
    /\ ohlcvDataProp = prop
    /\ isOptimizing = FALSE
    /\ testParams = DefaultParams
    /\ bestParams = Sentinel
    /\ highestProfit = NoHighest
    /\ pc = "idle"
    /\ now = 0
    /\ startTime = 0
    /\ localBest = Sentinel
    /\ lastUpdateTime = 0
    /\ runTestParams = DefaultParams
    /\ runHighestProfit = NoHighest
    /\ current = Sentinel
    /\ iter = 0
    /\ emitted = <<>>
    /\ runs = 0
    /\ climbs = 0
    /\ evals = 0
    /\ validSeen = FALSE
    /\ startBest = Sentinel
    /\ runThrew = FALSE
    /\ cancelRequested = FALSE
    /\ runsAtFetch = 0

EvalIdle ==
    /\ ohlcvData = <<>>
    /\ parameters = DefaultParams
    /\ showAllSignals = FALSE
    /\ evalPc = "idle"
    /\ rsiValues = <<>>
    /\ cvValues = <<>>
    /\ i = 0
    /\ activeBuySignal = NULL
    /\ signals = <<>>
    /\ allSignals = <<>>
    /\ completedTrades = <<>>
    /\ result = NULL
    /\ earlier = <<>>

Init ==
    /\ EvalIdle
    /\ FetchIdle({})
    /\ \E prop \in {NULL, Ref("empty"), Ref("pool1")} : HookInit(prop)

\* the candidates of one iteration of a climb standing at params
Neighbors(params) ==
    {randomNeighbor(params, chosenKey, delta) :
        chosenKey \in paramKeys, delta \in {-STEP_SIZE, STEP_SIZE}}

\* line 114: the candidate's result replaces the current one
Improves(res, cur) == NGt(res.profit, cur.profit) /\ res.numTrades >= MIN_TRADES

HookIndicators == ComputeIndicators(HookSeries)

\* the candles of another pool: 25 flat bars
SecondPool == Series(Len(HookSeries), <<>>, 60)
SecondIndicators == ComputeIndicators(SecondPool)

\* table with the results of generateTradingSignals(series, p) added for
\* the parameter sets p of ps
Extend(table, ps, series, ind) ==
    table @@ [p \in ps \ DOMAIN table |-> Evaluate(ind, series, p, FALSE)]

\* the results of generateTradingSignals on series for every parameter
\* set a climb can pass to it: the points a climb can stand on (frontier:
\* those whose neighbours are still to be evaluated) and their neighbours
RECURSIVE Explore(_, _, _, _, _)
Explore(table, visited, frontier, series, ind) ==
    IF frontier = {} THEN table
    ELSE LET p == CHOOSE q \in frontier : TRUE
             extended == Extend(table, Neighbors(p) \cup {p}, series, ind)
             accepted == {n \in Neighbors(p) : Improves(extended[n], extended[p])}
         IN  Explore(extended, visited \cup {p},
                     (frontier \cup accepted) \ (visited \cup {p}), series, ind)

\* memos of the pure functions generateTradingSignals(HookSeries, _) and
\* generateTradingSignals(SecondPool, _)
HookResults == Explore(<<>>, {}, randomParams, HookSeries, HookIndicators)
SecondResults == Explore(<<>>, {}, randomParams, SecondPool, SecondIndicators)

\* the candle arrays that the ohlcvData prop may refer to, and the memos of
\* generateTradingSignals for them
CandleStore == [empty |-> <<>>, pool1 |-> HookSeries, pool2 |-> SecondPool]
ResultStore == [pool1 |-> HookResults, pool2 |-> SecondResults]

\* generateTradingSignals(ohlcvData, candidate) as the hook calls it
HookEvaluate(candidate) ==
    IF ohlcvDataProp[1] \in DOMAIN ResultStore
    THEN ResultStore[ohlcvDataProp[1]][Params4(candidate)]
    ELSE generateTradingSignals(CandleStore[ohlcvDataProp[1]], Params4(candidate), FALSE)

\* mutant of Unwind: the failing climb alone is abandoned and the loop goes on
Unwind_Recovers ==
    /\ runThrew' = TRUE
    /\ UNCHANGED cancelRequested
    /\ pc' = "sleep"
    /\ UNCHANGED isOptimizing

\* mutant of Unwind: the exception leaves the run with isOptimizing still set
Unwind_StaysOptimizing ==
    /\ runThrew' = TRUE
    /\ UNCHANGED cancelRequested
    /\ pc' = "idle"
    /\ UNCHANGED isOptimizing

\* an exception leaves runHillClimbForFiveSeconds through its finally block
\* (lines 181-183)
Unwind ==
    /\ isOptimizing' = FALSE
    /\ runThrew' = TRUE
    /\ UNCHANGED cancelRequested
    /\ pc' = "idle"

\* the moment the user starts the k-th run: well after the previous run ended
ClickTime(k) == 1000000 * k

\* mutant of RunStart: every run begins from the sentinel
RunStart_FromSentinel ==
    /\ pc = "idle"
    /\ runs < MaxRuns
    /\ now' = ClickTime(runs + 1)
    /\ isOptimizing' = TRUE
    /\ startTime' = now'
    /\ localBest' = Sentinel
    /\ lastUpdateTime' = 0
    /\ runTestParams' = testParams
    /\ runHighestProfit' = highestProfit
    /\ startBest' = Sentinel
    /\ emitted' = <<>>
    /\ validSeen' = FALSE
    /\ runThrew' = FALSE
    /\ cancelRequested' = FALSE
    /\ climbs' = 0
    /\ evals' = 0
    /\ runs' = runs + 1
    /\ pc' = "loop"
    /\ UNCHANGED <<ohlcvDataProp, runsAtFetch, testParams, bestParams, highestProfit,
                   current, iter>>
    /\ UNCHANGED evalVars
    /\ UNCHANGED fetchVars

\* mutant of RunStart: the throttle window opens as the run starts
RunStart_ThrottleFromStart ==
    /\ pc = "idle"
    /\ runs < MaxRuns
    /\ now' = ClickTime(runs + 1)
    /\ isOptimizing' = TRUE
    /\ startTime' = now'
    /\ localBest' = bestParams
    /\ lastUpdateTime' = now'
    /\ runTestParams' = testParams
    /\ runHighestProfit' = highestProfit
    /\ startBest' = bestParams
    /\ emitted' = <<>>
    /\ validSeen' = FALSE
    /\ runThrew' = FALSE
    /\ cancelRequested' = FALSE
    /\ climbs' = 0
    /\ evals' = 0
    /\ runs' = runs + 1
    /\ pc' = "loop"
    /\ UNCHANGED <<ohlcvDataProp, runsAtFetch, testParams, bestParams, highestProfit,
                   current, iter>>
    /\ UNCHANGED evalVars
    /\ UNCHANGED fetchVars

\* lines 130-135
RunStart ==
    /\ pc = "idle"
    /\ runs < MaxRuns
    /\ now' = ClickTime(runs + 1)
    /\ isOptimizing' = TRUE
    /\ startTime' = now'
    /\ localBest' = bestParams
    /\ lastUpdateTime' = 0
    /\ runTestParams' = testParams
    /\ runHighestProfit' = highestProfit
    /\ startBest' = bestParams
    /\ emitted' = <<>>
    /\ validSeen' = FALSE
    /\ runThrew' = FALSE
    /\ cancelRequested' = FALSE
    /\ climbs' = 0
    /\ evals' = 0
    /\ runs' = runs + 1
    /\ pc' = "loop"
    /\ UNCHANGED <<ohlcvDataProp, runsAtFetch, testParams, bestParams, highestProfit,
                   current, iter>>
    /\ UNCHANGED evalVars
    /\ UNCHANGED fetchVars

\* line 138: the loop condition
LoopCheck ==
    /\ pc = "loop"
    /\ pc' = IF now - startTime < RUN_MILLIS THEN "climb" ELSE "final"
    /\ UNCHANGED <<ohlcvDataProp, runsAtFetch, isOptimizing, testParams, bestParams,
                   highestProfit, now, startTime, localBest, lastUpdateTime, runTestParams,
                   runHighestProfit, current, iter, emitted, runs, climbs, evals, validSeen,
                   startBest, runThrew, cancelRequested>>
    /\ UNCHANGED evalVars
    /\ UNCHANGED fetchVars

\* runOneHillClimb up to its loop (lines 90-107)
ClimbStart ==
    /\ pc = "climb"
    /\ climbs' = climbs + 1
    /\ evals' = (IF ohlcvDataProp = NULL THEN 0 ELSE 1)
    /\ IF ohlcvDataProp = NULL
       THEN /\ current' = WithResult(runTestParams, NInf, 0)
            /\ pc' = "returned"
            /\ UNCHANGED <<iter, validSeen, isOptimizing, runThrew, cancelRequested>>
       ELSE \E sample \in randomParams :
              \E initialResult \in {HookEvaluate(sample)} :
                  IF initialResult.threw
                  THEN /\ Unwind
                       /\ UNCHANGED <<current, iter, validSeen>>
                  ELSE /\ current' = WithResult(sample, initialResult.profit,
                                                initialResult.numTrades)
                       /\ iter' = 0
                       /\ validSeen' = (validSeen \/ initialResult.numTrades >= MIN_TRADES)
                       /\ pc' = "iterate"
                       /\ UNCHANGED <<isOptimizing, runThrew, cancelRequested>>
    /\ UNCHANGED <<ohlcvDataProp, runsAtFetch, testParams, bestParams, highestProfit,
                   now, startTime, localBest, lastUpdateTime, runTestParams,
                   runHighestProfit, emitted, runs, startBest>>
    /\ UNCHANGED evalVars
    /\ UNCHANGED fetchVars

\* mutant of ClimbIter: a neighbour with the same profit replaces current
ClimbIter_AcceptsEqual ==
    /\ pc = "iterate"
    /\ iter < MAX_ITERATIONS
    /\ evals' = evals + 1
    /\ \E chosenKey \in paramKeys, delta \in {-STEP_SIZE, STEP_SIZE} :
          \E candidate \in {randomNeighbor(current, chosenKey, delta)} :
          \E res \in {HookEvaluate(candidate)} :
              IF res.threw
              THEN /\ Unwind
                   /\ UNCHANGED <<current, iter, validSeen, testParams>>
              ELSE /\ IF NGe(res.profit, current.maxProfit) /\ res.numTrades >= MIN_TRADES
                      THEN /\ current' = WithResult(candidate, res.profit, res.numTrades)
                           /\ testParams' = WithResult(candidate, res.profit, res.numTrades)
                      ELSE UNCHANGED <<current, testParams>>
                   /\ iter' = iter + 1
                   /\ validSeen' = (validSeen \/ res.numTrades >= MIN_TRADES)
                   /\ UNCHANGED <<isOptimizing, runThrew, cancelRequested, pc>>
    /\ UNCHANGED <<ohlcvDataProp, runsAtFetch, bestParams, highestProfit, now, startTime,
                   localBest, lastUpdateTime, runTestParams, runHighestProfit, emitted, runs,
                   climbs, startBest>>
    /\ UNCHANGED evalVars
    /\ UNCHANGED fetchVars

\* one iteration of the climb (lines 110-124)
ClimbIter ==
    /\ pc = "iterate"
    /\ iter < MAX_ITERATIONS
    /\ evals' = evals + 1
    /\ \E chosenKey \in paramKeys, delta \in {-STEP_SIZE, STEP_SIZE} :
          \E candidate \in {randomNeighbor(current, chosenKey, delta)} :
          \E res \in {HookEvaluate(candidate)} :
              IF res.threw
              THEN /\ Unwind
                   /\ UNCHANGED <<current, iter, validSeen, testParams>>
              ELSE /\ IF NGt(res.profit, current.maxProfit) /\ res.numTrades >= MIN_TRADES
                      THEN /\ current' = WithResult(candidate, res.profit, res.numTrades)
                           /\ testParams' = WithResult(candidate, res.profit, res.numTrades)
                      ELSE UNCHANGED <<current, testParams>>
                   /\ iter' = iter + 1
                   /\ validSeen' = (validSeen \/ res.numTrades >= MIN_TRADES)
                   /\ UNCHANGED <<isOptimizing, runThrew, cancelRequested, pc>>
    /\ UNCHANGED <<ohlcvDataProp, runsAtFetch, bestParams, highestProfit, now, startTime,
                   localBest, lastUpdateTime, runTestParams, runHighestProfit, emitted, runs,
                   climbs, startBest>>
    /\ UNCHANGED evalVars
    /\ UNCHANGED fetchVars

\* mutant of ClimbReturn: the climb may return one iteration early
ClimbReturn_StopsEarly ==
    /\ pc = "iterate"
    /\ iter >= MAX_ITERATIONS - 1
    /\ \E d \in ClimbDurations : now' = now + d
    /\ pc' = "returned"
    /\ UNCHANGED <<ohlcvDataProp, runsAtFetch, isOptimizing, testParams, bestParams,
                   highestProfit, startTime, localBest, lastUpdateTime, runTestParams,
                   runHighestProfit, current, iter, emitted, runs, climbs, evals, validSeen,
                   startBest, runThrew, cancelRequested>>
    /\ UNCHANGED evalVars
    /\ UNCHANGED fetchVars
\* line 126: the climb returns current; the climb has taken some time
ClimbReturn ==
    /\ pc = "iterate"
    /\ iter >= MAX_ITERATIONS
    /\ \E d \in ClimbDurations : now' = now + d
    /\ pc' = "returned"
    /\ UNCHANGED <<ohlcvDataProp, runsAtFetch, isOptimizing, testParams, bestParams,
                   highestProfit, startTime, localBest, lastUpdateTime, runTestParams,
                   runHighestProfit, current, iter, emitted, runs, climbs, evals, validSeen,
                   startBest, runThrew, cancelRequested>>
    /\ UNCHANGED evalVars
    /\ UNCHANGED fetchVars

Emission(best, final) ==
    [params |-> Params4(best), best |-> best, at |-> now, final |-> final]

\* mutant of AfterClimb: the latest attempt always replaces localBest
AfterClimb_TakesLast ==
    /\ pc = "returned"
    /\ localBest' = current
    /\ IF now - lastUpdateTime >= UPDATE_THROTTLE
       THEN /\ bestParams' = current
            /\ emitted' = Append(emitted, Emission(current, FALSE))
            /\ lastUpdateTime' = now
       ELSE UNCHANGED <<bestParams, emitted, lastUpdateTime>>
    /\ pc' = "sleep"
    /\ UNCHANGED <<ohlcvDataProp, runsAtFetch, isOptimizing, testParams, highestProfit,
                   now, startTime, runTestParams, runHighestProfit, current, iter, runs,
                   climbs, evals, validSeen, startBest, runThrew, cancelRequested>>
    /\ UNCHANGED evalVars
    /\ UNCHANGED fetchVars

\* mutant of AfterClimb: every improvement is emitted at once
AfterClimb_Unthrottled ==
    /\ pc = "returned"
    /\ IF NGt(current.maxProfit, localBest.maxProfit)
       THEN /\ localBest' = current
            /\ bestParams' = current
            /\ emitted' = Append(emitted, Emission(current, FALSE))
            /\ lastUpdateTime' = now
       ELSE UNCHANGED <<localBest, bestParams, emitted, lastUpdateTime>>
    /\ pc' = "sleep"
    /\ UNCHANGED <<ohlcvDataProp, runsAtFetch, isOptimizing, testParams, highestProfit,
                   now, startTime, runTestParams, runHighestProfit, current, iter, runs,
                   climbs, evals, validSeen, startBest, runThrew, cancelRequested>>
    /\ UNCHANGED evalVars
    /\ UNCHANGED fetchVars

\* lines 139-155: compare the attempt with localBest, throttled update
AfterClimb ==
    /\ pc = "returned"
    /\ IF NGt(current.maxProfit, localBest.maxProfit)
       THEN /\ localBest' = current
            /\ IF now - lastUpdateTime >= UPDATE_THROTTLE
               THEN /\ bestParams' = current
                    /\ emitted' = Append(emitted, Emission(current, FALSE))
                    /\ lastUpdateTime' = now
               ELSE UNCHANGED <<bestParams, emitted, lastUpdateTime>>
       ELSE UNCHANGED <<localBest, bestParams, emitted, lastUpdateTime>>
    /\ pc' = "sleep"
    /\ UNCHANGED <<ohlcvDataProp, runsAtFetch, isOptimizing, testParams, highestProfit,
                   now, startTime, runTestParams, runHighestProfit, current, iter, runs,
                   climbs, evals, validSeen, startBest, runThrew, cancelRequested>>
    /\ UNCHANGED evalVars
    /\ UNCHANGED fetchVars

\* line 157: await setTimeout(50); after MaxClimbs climbs the timer is late
\* enough to exhaust the time budget
Sleep ==
    /\ pc = "sleep"
    /\ \E d \in SleepDurations :
          /\ climbs >= MaxClimbs => d >= RUN_MILLIS
          /\ now' = now + d
    /\ pc' = "loop"
    /\ UNCHANGED <<ohlcvDataProp, runsAtFetch, isOptimizing, testParams, bestParams,
                   highestProfit, startTime, localBest, lastUpdateTime, runTestParams,
                   runHighestProfit, current, iter, emitted, runs, climbs, evals, validSeen,
                   startBest, runThrew, cancelRequested>>
    /\ UNCHANGED evalVars
    /\ UNCHANGED fetchVars

\* mutant of FinalUpdate: the final emission carries the bestParams state
FinalUpdate_EmitsState ==
    /\ pc = "final"
    /\ bestParams' = localBest
    /\ emitted' = Append(emitted, Emission(bestParams, TRUE))
    /\ highestProfit' = IF NGt(localBest.maxProfit, runHighestProfit.profit)
                        THEN [profit |-> localBest.maxProfit, params |-> Params4(localBest)]
                        ELSE highestProfit
    /\ isOptimizing' = FALSE
    /\ pc' = "idle"
    /\ UNCHANGED <<ohlcvDataProp, runsAtFetch, testParams, now, startTime, localBest,
                   lastUpdateTime, runTestParams, runHighestProfit, current, iter, runs,
                   climbs, evals, validSeen, startBest, runThrew, cancelRequested>>
    /\ UNCHANGED evalVars
    /\ UNCHANGED fetchVars

\* mutant of FinalUpdate: highestProfit is left as it is
FinalUpdate_KeepsHighest ==
    /\ pc = "final"
    /\ bestParams' = localBest
    /\ emitted' = Append(emitted, Emission(localBest, TRUE))
    /\ isOptimizing' = FALSE
    /\ pc' = "idle"
    /\ UNCHANGED <<ohlcvDataProp, runsAtFetch, testParams, now, startTime, localBest,
                   lastUpdateTime, runTestParams, runHighestProfit, current, iter, runs,
                   climbs, evals, validSeen, startBest, runThrew, cancelRequested, highestProfit>>
    /\ UNCHANGED evalVars
    /\ UNCHANGED fetchVars

\* lines 160-183: final update, highestProfit, finally
FinalUpdate ==
    /\ pc = "final"
    /\ bestParams' = localBest
    /\ emitted' = Append(emitted, Emission(localBest, TRUE))
    /\ highestProfit' = IF NGt(localBest.maxProfit, runHighestProfit.profit)
                        THEN [profit |-> localBest.maxProfit, params |-> Params4(localBest)]
                        ELSE highestProfit
    /\ isOptimizing' = FALSE
    /\ pc' = "idle"
    /\ UNCHANGED <<ohlcvDataProp, runsAtFetch, testParams, now, startTime, localBest,
                   lastUpdateTime, runTestParams, runHighestProfit, current, iter, runs,
                   climbs, evals, validSeen, startBest, runThrew, cancelRequested>>
    /\ UNCHANGED evalVars
    /\ UNCHANGED fetchVars

\* lines 186-204, called between runs
resetParameters ==
    /\ pc = "idle"
    /\ testParams' = DefaultParams
    /\ bestParams' = Sentinel
    /\ highestProfit' = NoHighest
    /\ UNCHANGED <<ohlcvDataProp, runsAtFetch, isOptimizing, pc, now, startTime, localBest,
                   lastUpdateTime, runTestParams, runHighestProfit, current, iter, emitted,
                   runs, climbs, evals, validSeen, startBest, runThrew, cancelRequested>>
    /\ UNCHANGED evalVars
    /\ UNCHANGED fetchVars

\* the user enters another pool address: fetchData (component, lines
\* 121-237) replaces the candles by setOhlcvData and calls nothing of the hook
fetchData ==
    /\ pc = "idle"
    /\ ohlcvDataProp = Ref("pool1")
    /\ ohlcvDataProp' = Ref("pool2")
    /\ runsAtFetch' = runs
    /\ UNCHANGED <<isOptimizing, testParams, bestParams, highestProfit, pc, now, startTime,
                   localBest, lastUpdateTime, runTestParams, runHighestProfit, current, iter,
                   emitted, runs, climbs, evals, validSeen, startBest, runThrew, cancelRequested>>
    /\ UNCHANGED evalVars
    /\ UNCHANGED fetchVars

\* the user asks to stop the run in progress. Handlers run only while the
\* run is suspended in its setTimeout (line 157). The hook returns no
\* function to stop a run (lines 206-213) and runHillClimbForFiveSeconds
\* reads no such request: the request changes nothing of the hook's state.
\* The first run is the one asked to stop.
requestCancel ==
    /\ pc = "sleep"
    /\ runs = 1
    /\ ~cancelRequested
    /\ cancelRequested' = TRUE
    /\ UNCHANGED <<ohlcvDataProp, runsAtFetch, isOptimizing, testParams, bestParams,
                   highestProfit, pc, now, startTime, localBest, lastUpdateTime, runTestParams,
                   runHighestProfit, current, iter, emitted, runs, climbs, evals, validSeen,
                   startBest, runThrew>>
    /\ UNCHANGED evalVars
    /\ UNCHANGED fetchVars

Next ==
    \/ RunStart
    \/ LoopCheck
    \/ ClimbStart
    \/ ClimbIter
    \/ ClimbReturn
    \/ AfterClimb
    \/ Sleep
    \/ FinalUpdate
    \/ resetParameters
    \/ fetchData
    \/ requestCancel

Spec == Init /\ [][Next]_vars

(***************************************************************************)
(* generateTradingSignals, step by step                                    *)
(***************************************************************************)
InitEval ==
    /\ ohlcvData \in CandleInputs \cup NanInputs
    /\ parameters \in ParamInputs
    /\ showAllSignals \in BOOLEAN
    /\ evalPc = "call"
    /\ rsiValues = <<>>
    /\ cvValues = <<>>
    /\ i = 0
    /\ activeBuySignal = NULL
    /\ signals = <<>>
    /\ allSignals = <<>>
    /\ completedTrades = <<>>
    /\ result = NULL
    /\ earlier = <<>>
    /\ HookInit(NULL)
    /\ FetchIdle({})

\* lines 134-146: the indicator arrays; calculateChaikinVolatility may raise
EvalStart ==
    /\ evalPc = "call"
    /\ \E ind \in {IndicatorMemo[ohlcvData]} :
           IF ind.cvr.threw
           THEN /\ evalPc' = "threw"
                /\ result' = Ref(Threw)
                /\ UNCHANGED <<rsiValues, cvValues, i>>
           ELSE /\ evalPc' = "scan"
                /\ rsiValues' = ind.rsi
                /\ cvValues' = ind.cvr.cv
                /\ i' = 1
                /\ UNCHANGED result
    /\ UNCHANGED <<ohlcvData, parameters, showAllSignals, activeBuySignal, signals,
                   allSignals, completedTrades, earlier>>
    /\ UNCHANGED hookVars
    /\ UNCHANGED fetchVars

\* lines 148-217: one iteration of the scan
ScanStep ==
    /\ evalPc = "scan"
    /\ i < Len(rsiValues)
    /\ LET st == ScanBody(ScanState, i, ohlcvData, rsiValues, cvValues, parameters, showAllSignals)
       IN  /\ activeBuySignal' = st.activeBuySignal
           /\ signals' = st.signals
           /\ allSignals' = st.allSignals
           /\ completedTrades' = st.completedTrades
    /\ i' = i + 1
    /\ UNCHANGED <<ohlcvData, parameters, showAllSignals, evalPc, rsiValues, cvValues, result,
                   earlier>>
    /\ UNCHANGED hookVars
    /\ UNCHANGED fetchVars

\* lines 219-245: the loop is over; compound the trades and return
EvalFinish ==
    /\ evalPc = "scan"
    /\ i >= Len(rsiValues)
    /\ result' = Ref(Finish(ScanState, showAllSignals))
    /\ evalPc' = "done"
    /\ UNCHANGED <<ohlcvData, parameters, showAllSignals, rsiValues, cvValues, i,
                   activeBuySignal, signals, allSignals, completedTrades, earlier>>
    /\ UNCHANGED hookVars
    /\ UNCHANGED fetchVars

\* the calls made on one candle array, and the arrays they are made on:
\* 18 flat bars and three bars that move
MaxCalls == 3
RepeatInputs == {Series(18, tail, 60) : tail \in [1..3 -> {"D", "R"}]}

\* mutant of CallAgain: the trade list survives from one call to the next
CallAgain_KeepsTrades ==
    /\ evalPc = "done"
    /\ Len(earlier) < MaxCalls - 1
    /\ ohlcvData \in RepeatInputs
    /\ earlier' = Append(earlier, [parameters |-> parameters, showAllSignals |-> showAllSignals,
                                    result |-> result[1]])
    /\ parameters' \in ParamInputs
    /\ showAllSignals' \in BOOLEAN
    /\ evalPc' = "call"
    /\ rsiValues' = <<>>
    /\ cvValues' = <<>>
    /\ i' = 0
    /\ activeBuySignal' = NULL
    /\ signals' = <<>>
    /\ allSignals' = <<>>
    /\ result' = NULL
    /\ UNCHANGED <<ohlcvData, completedTrades>>
    /\ UNCHANGED hookVars
    /\ UNCHANGED fetchVars

\* the caller, holding the same candle array, calls generateTradingSignals
\* again after it returned: the function keeps nothing outside its body,
\* and lines 134-144 create every array and the open position anew
CallAgain ==
    /\ evalPc = "done"
    /\ Len(earlier) < MaxCalls - 1
    /\ ohlcvData \in RepeatInputs
    /\ earlier' = Append(earlier, [parameters |-> parameters, showAllSignals |-> showAllSignals,
                                    result |-> result[1]])
    /\ parameters' \in ParamInputs
    /\ showAllSignals' \in BOOLEAN
    /\ evalPc' = "call"
    /\ rsiValues' = <<>>
    /\ cvValues' = <<>>
    /\ i' = 0
    /\ activeBuySignal' = NULL
    /\ signals' = <<>>
    /\ allSignals' = <<>>
    /\ completedTrades' = <<>>
    /\ result' = NULL
    /\ UNCHANGED ohlcvData
    /\ UNCHANGED hookVars
    /\ UNCHANGED fetchVars

NextEval == EvalStart \/ ScanStep \/ EvalFinish \/ CallAgain

SpecEval == InitEval /\ [][NextEval]_vars

(***************************************************************************)
(* components/chart-container.tsx: fetchData, with hooks/use-ohlcv-cache.ts*)
(* and hooks/use-rate-limit-monitor.ts                                     *)
(***************************************************************************)
MaxFetches == 3

CacheKeyOf(addr, iv) == <<addr, iv>>

InitFetch ==
    /\ EvalIdle
    /\ HookInit(NULL)
    /\ \E stored \in SUBSET {CacheKeyOf("poolA", "15m"), CacheKeyOf("poolB", "1h")} :
           FetchIdle(stored)

\* fetchData is called (the effect on a change of pool or interval, or the
\* search form) and runs to its cache lookup (lines 121-153). getFromCache
\* gives the entry of the key if there is one and it has not expired; an
\* expired entry is removed (use-ohlcv-cache.ts lines 105-221)
FetchBegin ==
    /\ fetchPc = "idle"
    /\ fetches < MaxFetches
    /\ fetches' = fetches + 1
    /\ \E addr \in PoolAddresses, iv \in Intervals, expired \in BOOLEAN :
          /\ tokenAddress' = addr
          /\ interval' = iv
          /\ IF CacheKeyOf(addr, iv) \in cacheStore /\ ~expired
             THEN /\ fetchPc' = "hit"
                  /\ dataLoadSource' = "Cache"
                  /\ UNCHANGED <<cacheStore, misses>>
             ELSE /\ fetchPc' = "miss"
                  /\ dataLoadSource' = "API"
                  /\ cacheStore' = cacheStore \ {CacheKeyOf(addr, iv)}
                  /\ misses' = misses + 1
    /\ UNCHANGED <<apiCalls, chartRequests>>
    /\ UNCHANGED <<evalVars, hookVars>>

\* mutant of FetchFromCache: the call is recorded for a cache hit as well
FetchFromCache_Records ==
    /\ fetchPc = "hit"
    /\ apiCalls' = apiCalls + 1
    /\ \E failed \in BOOLEAN :
          dataLoadSource' = (IF failed THEN "Error" ELSE dataLoadSource)
    /\ fetchPc' = "idle"
    /\ UNCHANGED <<tokenAddress, interval, cacheStore, chartRequests, fetches, misses>>
    /\ UNCHANGED <<evalVars, hookVars>>

\* lines 155-179: the cached candles are used; the token info is fetched,
\* which may fail (catch, lines 226-233)
FetchFromCache ==
    /\ fetchPc = "hit"
    /\ \E failed \in BOOLEAN :
          dataLoadSource' = (IF failed THEN "Error" ELSE dataLoadSource)
    /\ fetchPc' = "idle"
    /\ UNCHANGED <<tokenAddress, interval, cacheStore, apiCalls, chartRequests, fetches,
                   misses>>
    /\ UNCHANGED <<evalVars, hookVars>>

\* line 192: rateLimitMonitor.recordApiCall appends one call to the stored
\* list (use-rate-limit-monitor.ts lines 70-86)
RecordApiCall ==
    /\ fetchPc = "miss"
    /\ apiCalls' = apiCalls + 1
    /\ fetchPc' = "recorded"
    /\ UNCHANGED <<tokenAddress, interval, cacheStore, dataLoadSource, chartRequests,
                   fetches, misses>>
    /\ UNCHANGED <<evalVars, hookVars>>

\* lines 194-198: APIService.fetchChartDataWithLimit is called and awaited
RequestChart ==
    /\ fetchPc = "recorded"
    /\ chartRequests' = chartRequests + 1
    /\ fetchPc' = "awaiting"
    /\ UNCHANGED <<tokenAddress, interval, cacheStore, dataLoadSource, apiCalls, fetches,
                   misses>>
    /\ UNCHANGED <<evalVars, hookVars>>

\* lines 200-233: the response arrives and is saved to the cache (a write
\* that fails is only logged), or the request fails (catch)
FetchResponse ==
    /\ fetchPc = "awaiting"
    /\ \E failed \in BOOLEAN, saved \in BOOLEAN :
          IF failed
          THEN /\ dataLoadSource' = "Error"
               /\ UNCHANGED cacheStore
          ELSE /\ cacheStore' = (IF saved THEN cacheStore \cup {CacheKeyOf(tokenAddress, interval)}
                                          ELSE cacheStore)
               /\ UNCHANGED dataLoadSource
    /\ fetchPc' = "idle"
    /\ UNCHANGED <<tokenAddress, interval, apiCalls, chartRequests, fetches, misses>>
    /\ UNCHANGED <<evalVars, hookVars>>

NextFetch == FetchBegin \/ FetchFromCache \/ RecordApiCall \/ RequestChart \/ FetchResponse

\* the statements between the cache miss and the await are synchronous:
\* once begun they run to the request
SpecFetch ==
    /\ InitFetch /\ [][NextFetch]_vars
    /\ WF_vars(RecordApiCall) /\ WF_vars(RequestChart)

(***************************************************************************)
(* Properties of generateTradingSignals (checked under SpecEval)           *)
(***************************************************************************)
Returned == evalPc = "done"
Res == result[1]
CloseAt(bar) == Price(ohlcvData[bar + 1], "close")

\* C1: when no parameter set evaluated during a run that began from the
\* sentinel has at least 3 trades, the best of the run is still the sentinel
\* (profit -Infinity), in localBest and in every emission.
C1_SentinelKeptWithoutValidCandidate ==
    (runs >= 1 /\ startBest = Sentinel /\ ~validSeen) =>
        /\ localBest = Sentinel
        /\ \A k \in 1..Len(emitted) : emitted[k].best = Sentinel

\* C2: called with an empty candle array, generateTradingSignals returns
\* signals = [], trades = [], profit = 0, tradeCount = 0 and does not throw.
C2_EmptyCandlesReturnZero ==
    (Len(ohlcvData) = 0 /\ evalPc # "call") =>
        /\ evalPc # "threw"
        /\ Returned => /\ Res.signals = <<>>
                       /\ Res.tradeAnalytics.trades = <<>>
                       /\ Res.profit = Num(0)
                       /\ Res.numTrades = 0

\* a run has just begun: nothing but lines 130-135 has executed
RunJustBegun == pc = "loop" /\ climbs = 0

RunCompleted == runs >= 1 /\ pc = "idle" /\ ~runThrew

C5_OnePositionAlternating ==
    LET m == SelectSeq(signals, IsBuyOrSell)
        buys == Len(SelectSeq(signals, IsBuy))
    IN  /\ \A k \in 1..Len(m) : IF k % 2 = 1 THEN IsBuy(m[k]) ELSE IsSell(m[k])
        /\ buys - Len(completedTrades) \in {0, 1}
        /\ (activeBuySignal # NULL) <=> (buys - Len(completedTrades) = 1)

C5_Witness == Len(completedTrades) >= 1 /\ activeBuySignal # NULL

\* C6: with strictly ascending timestamps every trade has sellTime > buyTime,
\* carries the time and close of the Buy that opened its position, and no
\* Buy is closed by two trades.
C6_TradesCloseTheirBuy ==
    LET buys == SelectSeq(signals, IsBuy)
    IN  \A k \in 1..Len(completedTrades) :
            LET t == completedTrades[k]
            IN  /\ t.sellTime > t.buyTime
                /\ k <= Len(buys)
                /\ t.buyTime = buys[k].time
                /\ \E j \in 1..Len(ohlcvData) :
                       ohlcvData[j].time = t.buyTime /\ Price(ohlcvData[j], "close") = t.buyPrice
                /\ \A k2 \in 1..Len(completedTrades) :
                       k2 # k => completedTrades[k2].buyTime # t.buyTime

C6_Witness == Len(completedTrades) >= 2

\* the indicator values the scan pairs at RSI index idx
RsiAt(idx) == rsiValues[idx + 1]
CvAt(idx) == cvValues[Len(cvValues) - Len(rsiValues) + idx + 1]
HasCv(idx) == Len(cvValues) - Len(rsiValues) + idx >= 0

\* the buy / sell predicate at a bar, under the index mapping bar = idx + 14;
\* where the bar has no CV value yet only the RSI part can be required
BuyAtBar(bar) ==
    /\ bar - OFFSET \in 0..(Len(rsiValues) - 1)
    /\ NLt(RsiAt(bar - OFFSET), Tenths(parameters.buyRsiThreshold))
    /\ HasCv(bar - OFFSET) => NLt(CvAt(bar - OFFSET), Tenths(parameters.buyCvThreshold))

SellAtBar(bar) ==
    /\ bar - OFFSET \in 0..(Len(rsiValues) - 1)
    /\ NGt(RsiAt(bar - OFFSET), Tenths(parameters.sellRsiThreshold))
    /\ HasCv(bar - OFFSET) => NGt(CvAt(bar - OFFSET), Tenths(parameters.sellCvThreshold))

OneTradeBetween(buyBar, sellBar) ==
    /\ Res.numTrades = 1
    /\ Len(Res.tradeAnalytics.trades) = 1
    /\ Res.tradeAnalytics.trades[1].buyPrice = CloseAt(buyBar)
    /\ Res.tradeAnalytics.trades[1].sellPrice = CloseAt(sellBar)
    /\ Res.profit = calculatePercentageChange(CloseAt(buyBar), CloseAt(sellBar))

\* C7 as stated: 20 candles, buy predicate at bar 15, sell predicate at bar
\* 18, default thresholds: exactly one trade from bar 15's close to bar 18's.
C7_ScenarioA20 ==
    (Returned /\ Len(ohlcvData) = 20 /\ parameters = DefaultParams
        /\ BuyAtBar(15) /\ SellAtBar(18)) => OneTradeBetween(15, 18)

\* C7 amended: 20 candles never give a trade; 21 candles whose indicators
\* satisfy the buy predicate at scan index 4 and the sell predicate at scan
\* index 5 under the default thresholds give exactly one trade, bought at
\* bar 18's close and sold at bar 19's, with that percentage as profit.
C7_ScenarioA21 ==
    Returned =>
        /\ Len(ohlcvData) = 20 => (Res.numTrades = 0 /\ Res.profit = Num(0))
        /\ (Len(ohlcvData) = 21 /\ parameters = DefaultParams
               /\ BuyCondition(RsiAt(4), CvAt(4), parameters)
               /\ SellCondition(RsiAt(5), CvAt(5), parameters)) => OneTradeBetween(18, 19)

C7_Witness ==
    /\ Returned /\ Len(ohlcvData) = 21 /\ parameters = DefaultParams
    /\ BuyCondition(RsiAt(4), CvAt(4), parameters)
    /\ SellCondition(RsiAt(5), CvAt(5), parameters)
    /\ Res.numTrades = 1

\* the same series with another close on its last candle
BumpLast(data) == [data EXCEPT ![Len(data)].close = @ + 1]

\* C8: RSI[idx] is computed from closes[0..idx+14] only, the last of them
\* being the close of the candle a signal at idx is stamped on: a series
\* that differs only on a later candle has the same RSI[idx] and the same
\* markers up to that candle.
C8_RsiUsesNoLaterCandle ==
    (Returned /\ Len(ohlcvData) >= 1) =>
        LET alt == BumpLast(ohlcvData)
            altRsi == calculateRSI(Closes(alt), RSI_PERIOD)
            altRes == generateTradingSignals(alt, parameters, showAllSignals)
        IN  /\ \A idx \in 0..(Len(rsiValues) - 1) :
                   idx + OFFSET < Len(ohlcvData) - 1 => altRsi[idx + 1] = RsiAt(idx)
            /\ altRes.signals = Res.signals

\* C9: a position still open when the scan ends adds nothing: trades,
\* tradeCount and profit are those of the run that stops on the candle the
\* last Buy is stamped on, in which that Buy never happens.
C9_OpenPositionNotCounted ==
    (Returned /\ activeBuySignal # NULL) =>
        LET j == CHOOSE j \in 1..Len(ohlcvData) : ohlcvData[j].time = activeBuySignal[1].time
            before == generateTradingSignals(SubSeq(ohlcvData, 1, j), parameters, showAllSignals)
        IN  /\ Res.numTrades = before.numTrades
            /\ Res.profit = before.profit
            /\ Res.tradeAnalytics.trades = before.tradeAnalytics.trades
            /\ Len(SelectSeq(before.signals, IsBuy)) = before.numTrades

C9_Witness == Returned /\ activeBuySignal # NULL /\ Res.numTrades >= 1

\* 1000 * (sell_1 / buy_1) * ... * (sell_k / buy_k)
RECURSIVE ProductOfTrades(_, _)
ProductOfTrades(trades, k) ==
    IF k = 0 THEN Num(INITIAL_INVESTMENT)
    ELSE NMul(ProductOfTrades(trades, k - 1),
              NAdd(Num(1), NDiv(NMul(NDiv(NSub(trades[k].sellPrice, trades[k].buyPrice),
                                          trades[k].buyPrice), Num(100)), Num(100))))

\* C10: the final value is 1000 times the product of (1 + pct/100) over the
\* trades in order, pct = (sell - buy) / buy * 100; profit is
\* (final / 1000 - 1) * 100; tradeCount is the number of trades; with no
\* trade the profit is exactly 0.
C10_Compounding ==
    Returned =>
        LET trades == Res.tradeAnalytics.trades
            final == Res.tradeAnalytics.currentPortfolioValue
        IN  /\ final = ProductOfTrades(trades, Len(trades))
            /\ Res.profit = NMul(NSub(NDiv(final, Num(INITIAL_INVESTMENT)), Num(1)), Num(100))
            /\ Res.numTrades = Len(trades)
            /\ Len(trades) = 0 => Res.profit = Num(0)

C10_Witness ==
    /\ Returned /\ Res.numTrades >= 2
    /\ \A k \in 1..Res.numTrades : Res.tradeAnalytics.trades[k].percentageChange # Num(0)

IsTrigger(s) == s.color \in {"allSignalsBuy", "allSignalsSell"}

OrderedByTime(seq) == \A k \in 1..(Len(seq) - 1) : seq[k].time <= seq[k + 1].time

\* the call with the same arguments and indicator arrays, showAllSignals off
PlainResult ==
    Evaluate([rsi |-> rsiValues, cvr |-> [threw |-> FALSE, cv |-> cvValues]],
             ohlcvData, parameters, FALSE)

\* C11: with showAllSignals on, trades, tradeCount and profit are those of
\* the call with it off; the flag only adds trigger markers to the signal
\* list (removing them gives the list of the call with it off), and the
\* list is ordered by time with the flag on or off.
C11_AllTriggersOnlyAddMarkers ==
    Returned =>
        /\ OrderedByTime(Res.signals)
        /\ ~showAllSignals => \A k \in 1..Len(Res.signals) : ~IsTrigger(Res.signals[k])
        /\ showAllSignals =>
              /\ Res.tradeAnalytics.trades = PlainResult.tradeAnalytics.trades
              /\ Res.numTrades = PlainResult.numTrades
              /\ Res.profit = PlainResult.profit
              /\ Res.tradeAnalytics.currentPortfolioValue
                     = PlainResult.tradeAnalytics.currentPortfolioValue
              /\ LET notTrigger(s) == ~IsTrigger(s)
                 IN  SelectSeq(Res.signals, notTrigger) = PlainResult.signals

\* a trigger was recorded at a candle where no transition happened, in a
\* call that closed a trade
C11_Witness ==
    /\ Returned /\ showAllSignals /\ Res.numTrades >= 1
    /\ \E k \in 1..Len(Res.signals) :
           /\ IsTrigger(Res.signals[k])
           /\ \A j \in 1..Len(Res.signals) :
                  Res.signals[j].time = Res.signals[k].time => IsTrigger(Res.signals[j])

\* C12: a candle with a NaN close, high or low makes generateTradingSignals
\* raise an error to its caller: no result is returned.
C12_NaNInputRaises == HasNaN(ohlcvData) => ~Returned

\* C13: within one run the profit of the best-so-far (localBest) never
\* decreases: every step other than the start of a run, and in particular
\* the comparison made after each climb, leaves localBest.maxProfit at
\* least as large as it was, whatever the climb returned.
C13_BestNeverRegresses ==
    [][pc # "idle" => NGe(localBest'.maxProfit, localBest.maxProfit)]_vars

\* a climb returned less than the best-so-far, and the best was kept
C13_Witness ==
    /\ pc = "sleep" /\ climbs >= 2
    /\ NLt(current.maxProfit, localBest.maxProfit)
    /\ localBest.maxProfit # NInf

\* a parameter set (in tenths) satisfies the four bounds
WithinBounds(p) ==
    \A key \in paramKeys :
        /\ p[key] >= 10 * bounds[BoundKey(key)].min
        /\ p[key] <= 10 * bounds[BoundKey(key)].max

\* C14: every parameter set passed to generateTradingSignals by the
\* optimizer is within the four bounds: whatever Math.random() gives, each
\* value of randInt and so every initial sample; the current point of a
\* climb (a sample or an accepted neighbour); and every neighbour that the
\* next iteration may derive from it.
C14_CandidatesWithinBounds ==
    /\ \A key \in paramKeys, u \in UnitDraws :
           LET b == bounds[BoundKey(key)]
           IN  randInt(b.min, b.max, u) \in b.min..b.max
    /\ \A sample \in randomParams : WithinBounds(sample)
    /\ (pc = "iterate" \/ (pc \in {"returned", "sleep"} /\ ohlcvDataProp # NULL)) =>
           WithinBounds(current)
    /\ pc = "iterate" =>
           \A chosenKey \in paramKeys, delta \in {-STEP_SIZE, STEP_SIZE} :
               WithinBounds(randomNeighbor(current, chosenKey, delta))

\* a climb has moved, and stands where a step of 5 would leave the bounds
\* and is clamped back
C14_Witness ==
    /\ pc = "iterate" /\ iter >= 1
    /\ Params4(current) \notin randomParams
    /\ \E chosenKey \in paramKeys, delta \in {-STEP_SIZE, STEP_SIZE} :
           /\ ~WithinBounds([current EXCEPT ![chosenKey] = @ + 10 * delta])
           /\ randomNeighbor(current, chosenKey, delta)[chosenKey] = current[chosenKey]

\* the emissions made from inside the loop
InLoop(e) == ~e.final

\* C15: within one run, consecutive emissions made from inside the loop
\* are at least 200 ms apart, and the comparison after a climb emits nothing
\* when less than 200 ms have passed since the previous emission of the
\* run, even though the climb improved on the best.
C15_Throttle ==
    /\ [](LET e == SelectSeq(emitted, InLoop)
          IN  \A k \in 1..(Len(e) - 1) : e[k + 1].at - e[k].at >= UPDATE_THROTTLE)
    /\ [][(/\ pc = "returned"
           /\ emitted # <<>>
           /\ now - emitted[Len(emitted)].at < UPDATE_THROTTLE) => emitted' = emitted]_vars

\* a climb improved on the best less than 200 ms after the previous
\* emission: localBest moved, nothing was emitted
C15_Witness ==
    /\ pc = "sleep" /\ Len(emitted) = 1
    /\ localBest = current /\ emitted[1].best # localBest
    /\ now - emitted[1].at < UPDATE_THROTTLE

\* C16: the first improvement of a run, that is the first climb whose
\* profit exceeds the best the run started with, is emitted by the
\* comparison that finds it, whatever the time since the run started.
C16_FirstImprovementEmitted ==
    [][(/\ pc = "returned"
        /\ localBest = startBest
        /\ NGt(current.maxProfit, startBest.maxProfit))
         => /\ emitted' = Append(emitted, Emission(current, FALSE))
            /\ bestParams' = current]_vars

\* the first improvement was emitted less than 200 ms after the run started
C16_Witness ==
    /\ pc = "sleep" /\ Len(emitted) = 1 /\ InLoop(emitted[1])
    /\ emitted[1].best = localBest /\ localBest # startBest
    /\ emitted[1].at - startTime < UPDATE_THROTTLE

C19_BestHasMinTrades ==
    /\ NGt(bestParams.maxProfit, NInf) => bestParams.numTrades >= MIN_TRADES
    /\ (pc = "returned" /\ NGt(current.maxProfit, NInf)) =>
           current.numTrades >= MIN_TRADES

\* the data of another pool has been fetched and no run has started since
NewPoolFetched == ohlcvDataProp = Ref("pool2") /\ runs = runsAtFetch /\ pc = "idle"

\* the first run on the data of the other pool, begun or completed
FirstRunOnNewPool == ohlcvDataProp = Ref("pool2") /\ runs = runsAtFetch + 1

\* C20: after the data of a different pool has been fetched, the thresholds
\* are the defaults and bestParams and highestProfit are the sentinel, so
\* the first run on the new pool starts from the sentinel and every best it
\* emits was evaluated on the new pool's data.
C20_NewPoolStartsFresh ==
    /\ NewPoolFetched =>
           /\ testParams = DefaultParams
           /\ bestParams = Sentinel
           /\ highestProfit = NoHighest
    /\ FirstRunOnNewPool =>
           /\ startBest = Sentinel
           /\ \A k \in 1..Len(emitted) :
                  /\ emitted[k].params \in DOMAIN SecondResults
                  /\ LET res == SecondResults[emitted[k].params]
                     IN  /\ emitted[k].best.maxProfit = res.profit
                         /\ emitted[k].best.numTrades = res.numTrades

\* the scan index idx passes the test of line 150: its body is evaluated
Evaluated(idx) ==
    /\ idx \in 1..(Len(rsiValues) - 1)
    /\ HasCv(idx)
    /\ idx + OFFSET < Len(ohlcvData)

BuyMarkers(seq) == Len(SelectSeq(seq, IsBuy))

\* C28: at an evaluated scan index at most one transition fires. A
\* position is opened exactly when none is open and rsi < buyRsiThreshold
\* and cv < buyCvThreshold; the open position is closed exactly when
\* rsi > sellRsiThreshold and cv > sellCvThreshold; the comparisons are
\* strict, and the index that closes a position does not open one.
C28_OneTransitionPerIndex ==
    [][(evalPc = "scan" /\ Evaluated(i)) =>
          LET rsi == RsiAt(i)
              cv == CvAt(i)
              buy == /\ NLt(rsi, Tenths(parameters.buyRsiThreshold))
                     /\ NLt(cv, Tenths(parameters.buyCvThreshold))
              sell == /\ NGt(rsi, Tenths(parameters.sellRsiThreshold))
                      /\ NGt(cv, Tenths(parameters.sellCvThreshold))
              opened == BuyMarkers(signals') - BuyMarkers(signals)
              closed == Len(completedTrades') - Len(completedTrades)
          IN  /\ opened \in {0, 1} /\ closed \in {0, 1} /\ opened + closed <= 1
              /\ opened = 1 <=> (activeBuySignal = NULL /\ buy)
              /\ closed = 1 <=> (activeBuySignal # NULL /\ sell)
              /\ opened = 1 => activeBuySignal' # NULL
              /\ closed = 1 => activeBuySignal' = NULL
              /\ (opened = 0 /\ closed = 0) => activeBuySignal' = activeBuySignal]_vars

\* the index just evaluated had its RSI equal to the buy threshold and its
\* CV below the buy threshold, with no position open: nothing was opened
C28_Witness ==
    /\ evalPc = "scan" /\ i >= 2 /\ Evaluated(i - 1)
    /\ NEq(RsiAt(i - 1), Tenths(parameters.buyRsiThreshold))
    /\ NLt(CvAt(i - 1), Tenths(parameters.buyCvThreshold))
    /\ activeBuySignal = NULL /\ signals = <<>>

\* the timestamps of candles first..last of the series (0-based)
CandleTimes(first, last) ==
    {ohlcvData[bar + 1].time : bar \in {b \in first..last : b + 1 \in DOMAIN ohlcvData}}

\* C30: with n candles the scan acts exactly at the indices i with
\* 4 <= i <= n - 16, where it pairs RSI[i] with CV[i - 4]; at any other
\* index nothing changes. Every marker carries the time of one of the
\* candles 18..n-2, so none that of the last candle, and a series of 20 or
\* fewer candles completes no trade.
C30_ScanRange ==
    /\ [](LET n == Len(ohlcvData)
          IN  /\ \A k \in DOMAIN signals : signals[k].time \in CandleTimes(18, n - 2)
              /\ \A k \in DOMAIN allSignals : allSignals[k].time \in CandleTimes(18, n - 2)
              /\ n <= 20 => completedTrades = <<>>
              /\ (Returned /\ n <= 20) => (Res.numTrades = 0 /\ Res.tradeAnalytics.trades = <<>>))
    /\ [][(evalPc = "scan" /\ i < Len(rsiValues)) =>
            LET n == Len(ohlcvData)
            IN  IF 4 <= i /\ i <= n - 16
                THEN /\ Len(rsiValues) = n - 15 /\ Len(cvValues) = n - 19
                     /\ (activeBuySignal = NULL /\ activeBuySignal' # NULL)
                            <=> (activeBuySignal = NULL
                                    /\ BuyCondition(rsiValues[i + 1], cvValues[i - 4 + 1], parameters))
                     /\ (activeBuySignal # NULL /\ activeBuySignal' = NULL)
                            <=> (activeBuySignal # NULL
                                    /\ SellCondition(rsiValues[i + 1], cvValues[i - 4 + 1], parameters))
                     /\ activeBuySignal' # NULL /\ activeBuySignal = NULL
                            => activeBuySignal'[1].time = ohlcvData[i + OFFSET + 1].time
                ELSE UNCHANGED <<activeBuySignal, signals, allSignals, completedTrades>>]_vars

\* a returned call on 22 candles with a marker on candle 18, the first that
\* can carry one, and a marker on candle 20, the last but one
C30_Witness ==
    /\ Returned /\ Len(ohlcvData) = 22
    /\ \E k \in DOMAIN signals : signals[k].time = ohlcvData[18 + 1].time
    /\ \E k \in DOMAIN signals : signals[k].time = ohlcvData[20 + 1].time
    /\ Res.numTrades >= 1

\* the arguments of the call in progress are those of the earlier call k
SameCall(k) ==
    /\ earlier[k].parameters = parameters
    /\ earlier[k].showAllSignals = showAllSignals

\* C22: a call returns what every earlier call with the same candles,
\* thresholds and showAllSignals returned, whatever calls ran in between;
\* no step of a call changes the candle array it was given.
C22_Pure ==
    /\ [](Returned => \A k \in DOMAIN earlier : SameCall(k) => earlier[k].result = Res)
    /\ [][ohlcvData' = ohlcvData]_vars

\* the third call on one array repeats the first, which completed a trade,
\* after a second call with other arguments and another result
C22_Witness ==
    /\ Returned /\ Len(earlier) = 2
    /\ SameCall(1) /\ ~SameCall(2)
    /\ earlier[2].result # Res
    /\ Res.numTrades >= 1

\* C24: inside a climb current is replaced only by a neighbour whose
\* profit is strictly greater and whose numTrades is at least 3, so its
\* profit never decreases during the climb; after a climb localBest is
\* replaced only by a climb result of strictly greater profit. A candidate
\* of equal profit never replaces the incumbent.
C24_StrictAcceptance ==
    [][/\ pc = "iterate" =>
             /\ NGe(current'.maxProfit, current.maxProfit)
             /\ current' # current =>
                    /\ NGt(current'.maxProfit, current.maxProfit)
                    /\ current'.numTrades >= MIN_TRADES
                    /\ testParams' = current'
       /\ pc = "returned" =>
             /\ localBest' # localBest =>
                    /\ NGt(current.maxProfit, localBest.maxProfit)
                    /\ localBest' = current
             /\ NEq(current.maxProfit, localBest.maxProfit) => localBest' = localBest]_vars

\* a climb has accepted a neighbour, and current now has another neighbour
\* of the same profit with at least 3 trades, which the climb may draw
C24_Witness ==
    /\ pc = "iterate" /\ iter >= 1 /\ iter < MAX_ITERATIONS
    /\ testParams = current /\ current.numTrades >= MIN_TRADES
    /\ \E chosenKey \in paramKeys, delta \in {-STEP_SIZE, STEP_SIZE} :
          LET candidate == randomNeighbor(current, chosenKey, delta)
              res == HookEvaluate(candidate)
          IN  /\ Params4(candidate) # Params4(current)
              /\ ~res.threw
              /\ NEq(res.profit, current.maxProfit)
              /\ res.numTrades >= MIN_TRADES

\* neighbor is params with the one dimension chosenKey moved by delta and
\* clamped to the bounds of that dimension
OneDimensionMoved(params, neighbor, chosenKey, delta) ==
    /\ DOMAIN neighbor = DOMAIN params
    /\ neighbor[chosenKey] = clamp(params[chosenKey] + 10 * delta,
                                   10 * bounds[BoundKey(chosenKey)].min,
                                   10 * bounds[BoundKey(chosenKey)].max)
    /\ \A key \in DOMAIN params \ {chosenKey} : neighbor[key] = params[key]

\* C26: whatever dimension and direction are drawn, randomNeighbor gives
\* the current point with the chosen dimension set to clamp(old + d, min,
\* max), d being -5 or +5, and the three other dimensions as they were. The
\* current point is not modified: after an iteration of the climb it is
\* what it was, or the neighbour that was accepted.
C26_NeighborFrame ==
    /\ [](pc = "iterate" =>
            \A chosenKey \in paramKeys, delta \in {-STEP_SIZE, STEP_SIZE} :
                OneDimensionMoved(current, randomNeighbor(current, chosenKey, delta),
                                  chosenKey, delta))
    /\ [][(pc = "iterate" /\ iter' = iter + 1) =>
             \/ current' = current
             \/ \E chosenKey \in paramKeys, delta \in {-STEP_SIZE, STEP_SIZE} :
                    OneDimensionMoved(Params4(current), Params4(current'), chosenKey, delta)]_vars

\* the climb has accepted a neighbour of its initial sample that differs
\* from the sample
C26_Witness ==
    /\ pc = "iterate" /\ iter >= 1 /\ testParams = current
    /\ \E sample \in randomParams, chosenKey \in paramKeys, delta \in {-STEP_SIZE, STEP_SIZE} :
           /\ Params4(current) = randomNeighbor(sample, chosenKey, delta)
           /\ Params4(current) # sample

\* C27: unless resetParameters is called, highestProfit.profit never
\* decreases (the candles may be replaced in between), and the step that
\* completes a run leaves it at least as high as the profit of the best the
\* run reports in its final emission.
C27_HighestProfitKept ==
    [][/\ resetParameters \/ NGe(highestProfit'.profit, highestProfit.profit)
       /\ (pc = "final" /\ pc' = "idle") =>
              /\ emitted' # <<>> /\ emitted'[Len(emitted')].final
              /\ NGe(highestProfit'.profit, emitted'[Len(emitted')].best.maxProfit)
              /\ NGe(highestProfit'.profit, bestParams'.maxProfit)]_vars

\* the second run, with no reset since the first, has completed and has
\* raised the highest profit that the first one left
C27_Witness ==
    /\ pc = "idle" /\ runs = 2 /\ ~runThrew
    /\ emitted # <<>> /\ emitted[Len(emitted)].final
    /\ NGt(runHighestProfit.profit, NInf)
    /\ NGt(highestProfit.profit, runHighestProfit.profit)
    /\ highestProfit.profit = bestParams.maxProfit

\* C29: isOptimizing is true from the start of a run until the run ends
\* and false whenever no run is in progress, whether the last run ended
\* normally or by an exception escaping from a climb. The step that ends a
\* run by exception emits nothing and changes neither highestProfit nor
\* bestParams; the step that ends it normally makes the final emission.
C29_OptimizingFlag ==
    /\ [](isOptimizing <=> pc # "idle")
    /\ [][/\ (pc = "idle" /\ pc' # "idle") => (isOptimizing' /\ ~runThrew')
          /\ (pc # "idle" /\ pc' = "idle") =>
                /\ ~isOptimizing'
                /\ IF runThrew'
                   THEN /\ pc \in {"climb", "iterate"}
                        /\ UNCHANGED <<emitted, highestProfit, bestParams>>
                   ELSE /\ pc = "final"
                        /\ emitted' = Append(emitted, Emission(localBest, TRUE))]_vars

\* two runs were started on the empty series and both ended by the
\* exception of their first evaluation
C29_Witness ==
    /\ runs = 2 /\ runThrew /\ pc = "idle" /\ ~isOptimizing
    /\ ohlcvDataProp = Ref("empty")
    /\ emitted = <<>> /\ highestProfit = NoHighest

\* C25 as stated: every climb that returns has evaluated exactly 301
\* parameter sets.
C25_EveryClimb301 ==
    [][(pc \in {"climb", "iterate"} /\ pc' = "returned") => evals' = 1 + MAX_ITERATIONS]_vars

\* C25 amended: a climb started with candles present evaluates its sample
\* and then one neighbour per iteration, and returns only after 1 + 300
\* evaluations, whatever the results and the time (an evaluation that
\* throws ends it earlier, with the run); started with ohlcvData null it
\* evaluates nothing and returns at once. The clock is read only at the
\* loop condition between climbs: a climb starts only while elapsed time is
\* below 5000 ms, and once it is not, the run goes to its final update.
C25_ClimbLength ==
    /\ [](pc = "climb" => now - startTime < RUN_MILLIS)
    /\ [][/\ (pc = "climb" /\ pc' = "returned") => (ohlcvDataProp = NULL /\ evals' = 0)
          /\ (pc = "climb" /\ pc' = "iterate") => (ohlcvDataProp # NULL /\ evals' = 1)
          /\ pc = "iterate" =>
                \/ pc' = "iterate" /\ evals' = evals + 1 /\ now' = now
                \/ pc' = "returned" /\ evals = 1 + MAX_ITERATIONS /\ evals' = evals
                \/ pc' = "idle" /\ runThrew'
          /\ pc = "loop" =>
                pc' = (IF now - startTime >= RUN_MILLIS THEN "final" ELSE "climb")]_vars

\* the first climb of a run took longer than the whole budget: it made its
\* 301 evaluations and the run went to its final update with no other climb
C25_Witness ==
    /\ pc = "final" /\ climbs = 1 /\ evals = 1 + MAX_ITERATIONS
    /\ ohlcvDataProp # NULL
    /\ now - startTime >= RUN_MILLIS + 1000

\* C23: the number of recordApiCall calls is the number of fetches whose
\* cache lookup missed, less the one that has just missed and not yet
\* recorded; a fetch that missed does record; the number of chart requests
\* sent is the number of recorded calls, less the one recorded and not yet
\* sent, so each call is recorded before its request; and a fetch served
\* from the cache records nothing and sends no chart request.
C23_RecordOnMissOnly ==
    /\ [](apiCalls = misses - (IF fetchPc = "miss" THEN 1 ELSE 0))
    /\ [](chartRequests = apiCalls - (IF fetchPc = "recorded" THEN 1 ELSE 0))
    /\ [][/\ apiCalls' # apiCalls =>
                (fetchPc = "miss" /\ apiCalls' = apiCalls + 1 /\ chartRequests' = chartRequests)
          /\ fetchPc = "hit" => (apiCalls' = apiCalls /\ chartRequests' = chartRequests)]_vars
    /\ (fetchPc = "miss") ~> (fetchPc = "awaiting")

\* three fetches have ended: two missed the cache and were recorded, and
\* one was served from the entry that another had saved
C23_Witness ==
    /\ fetchPc = "idle" /\ fetches = 3 /\ misses = 2
    /\ apiCalls = 2 /\ chartRequests = 2
    /\ dataLoadSource = "Cache"

\* C21: once cancellation of the run has been requested, the loop
\* condition between climbs ends the run: no further climb starts and the
\* run goes to its end although its 5000 ms have not elapsed.
C21_CancelStopsRun ==
    [][(cancelRequested /\ pc = "loop") => pc' = "final"]_vars

====
